---- MODULE Spec2Model ----
(***************************************************************************)
(* Mini inventory service (main.py, models.py, utils.py): the persisted    *)
(* product store, the five HTTP handlers that read and write it, and the   *)
(* restock policy of utils.py.                                             *)
(*                                                                         *)
(* Numbers.  Python's int is unbounded; every value here stays far below   *)
(* 2^31.  The source multiplies an int by the float literals 1.2, 1.1, 0.5 *)
(* and 0.25.  0.5 and 0.25 are powers of two, so threshold*0.5 and         *)
(* threshold*0.25 are exact and Python compares int with float exactly:    *)
(* the comparison is the rational one.  1.2 and 1.1 are not exact doubles, *)
(* but the correctly rounded double product q*1.2 (q*1.1) truncates to the *)
(* same integer as the rational 12q/10 (11q/10) for every 0 <= q < 3000000 *)
(* (enumerated with CPython; the two part company above 2^50), which       *)
(* covers every quantity of this model.  A float is modelled as a fraction *)
(* <<num, den>>.                                                           *)
(***************************************************************************)
EXTENDS Integers, FiniteSets

\* ---------------------------------------------------------------- bounds
\* Successful writes (save_data calls) in one behaviour.
MaxWrites == 3
\* Largest fixed purchase quantity offered besides "all of the stock" and
\* "one more than the stock".
MaxQty == 2
\* Largest stock and largest threshold the policy probe decides on.
MaxProbe == 12
\* Largest restock_quantity the policy probe computes an amount for.
MaxProbeRestock == 110

\* ------------------------------------------------------ program constants
\* main.py:25  if product.priority == "high" and product.min_threshold < 10
HighMinThreshold == 10
\* main.py:31  high_volume if product.restock_quantity > 50
VolumeCutoff == 50

\* ------------------------------------------------------------ input sets
Ids == {"p1", "p2"}
Names == {"bolt"}
PriorityEnum == {"high", "medium", "low"}
CategoryEnum == {"high_volume", "low_volume"}
\* Optional[CategoryEnum] = None
NoCategory == "None"
StockInputs == {0, 2}
ThresholdInputs == {3, 11}
RestockInputs == {VolumeCutoff, VolumeCutoff + 7}
\* A number the validators of models.py reject.
InvalidNumbers == {-1}

\* ------------------------------------------------------------ arithmetic
\* A float as a fraction.
Frac(n, d) == <<n, d>>
\* int * float literal (the literal given as a fraction).
FMul(i, f) == Frac(i * f[1], f[2])
\* int <= float
LeqIF(i, f) == i * f[2] <= f[1]
\* A plausible slip: rounding to the nearest integer instead of truncating.
IntRound(f) == (2 * f[1] + f[2]) \div (2 * f[2])
\* int(float): truncation toward zero.
IntOf(f) == IF f[1] >= 0 THEN f[1] \div f[2] ELSE -((-f[1]) \div f[2])

F12 == Frac(12, 10)
F11 == Frac(11, 10)
F05 == Frac(5, 10)
F025 == Frac(25, 100)

\* ------------------------------------------------------------- models.py
Product(id, name, stock, threshold, restock, priority, category) ==
    [product_id |-> id, name |-> name, stock_quantity |-> stock,
     min_threshold |-> threshold, restock_quantity |-> restock,
     priority |-> priority, category |-> category]

\* A plausible slip: the validator left out.
NoValidation(v) == TRUE
\* validator('stock_quantity', 'min_threshold', 'restock_quantity')
validate_positive_numbers(v) == v >= 0

ProductValid(p) ==
    /\ validate_positive_numbers(p.stock_quantity)
    /\ validate_positive_numbers(p.min_threshold)
    /\ validate_positive_numbers(p.restock_quantity)

\* validator('quantity')
validate_quantity(v) == v > 0

\* The request bodies add_product is offered: every well-formed product, and
\* one product per identifier and field with that field negative.
ValidCandidates ==
    [product_id : Ids, name : Names, stock_quantity : StockInputs,
     min_threshold : ThresholdInputs, restock_quantity : RestockInputs,
     priority : PriorityEnum, category : CategoryEnum \cup {NoCategory}]

InvalidCandidates ==
    UNION {{[Product(id, "bolt", 2, 3, VolumeCutoff, "high", NoCategory) EXCEPT !.stock_quantity = n],
            [Product(id, "bolt", 2, 3, VolumeCutoff, "high", NoCategory) EXCEPT !.min_threshold = n],
            [Product(id, "bolt", 2, 3, VolumeCutoff, "high", NoCategory) EXCEPT !.restock_quantity = n]} :
           <<id, n>> \in Ids \X InvalidNumbers}

Candidates == ValidCandidates \cup InvalidCandidates

\* -------------------------------------------------------------- utils.py
get_inventory_status(product) ==
    IF product.stock_quantity = 0 THEN "out_of_stock"
    ELSE IF product.stock_quantity < product.min_threshold THEN "below_threshold"
    ELSE "ok"

\* A plausible slip: the low tier compared strictly.
should_restock_strict(product) ==
    LET stock == product.stock_quantity
        threshold == product.min_threshold
        priority == product.priority
    IN  IF stock = 0 THEN TRUE
        ELSE IF stock >= threshold THEN FALSE
        ELSE IF priority = "high" THEN stock < threshold
        ELSE IF priority = "medium" THEN LeqIF(stock, FMul(threshold, F05))
        ELSE stock * FMul(threshold, F025)[2] < FMul(threshold, F025)[1]
\* A plausible slip: the out-of-stock rule placed after the threshold test.
should_restock_late_zero(product) ==
    LET stock == product.stock_quantity
        threshold == product.min_threshold
        priority == product.priority
    IN  IF stock >= threshold THEN FALSE
        ELSE IF stock = 0 THEN TRUE
        ELSE IF priority = "high" THEN stock < threshold
        ELSE IF priority = "medium" THEN LeqIF(stock, FMul(threshold, F05))
        ELSE LeqIF(stock, FMul(threshold, F025))
should_restock(product) ==
    LET stock == product.stock_quantity
        threshold == product.min_threshold
        priority == product.priority
    IN  IF stock = 0 THEN TRUE
        ELSE IF stock >= threshold THEN FALSE
        ELSE IF priority = "high" THEN stock < threshold
        ELSE IF priority = "medium" THEN LeqIF(stock, FMul(threshold, F05))
        ELSE LeqIF(stock, FMul(threshold, F025))

\* utils.py 102-113: the amount restock_if_needed adds.
auto_restock_amount(product) ==
    LET restock_qty == product.restock_quantity
    IN  IF product.priority = "high" THEN IntOf(FMul(restock_qty, F12))
        ELSE IF product.category = "high_volume" THEN IntOf(FMul(restock_qty, F11))
        ELSE restock_qty

\* restock_if_needed mutates the product and returns the flag: here the pair.
restock_if_needed(product) ==
    IF ~should_restock(product)
    THEN [product |-> product, triggered |-> FALSE]
    ELSE [product |-> [product EXCEPT !.stock_quantity = @ + auto_restock_amount(product)],
          triggered |-> TRUE]

\* -------------------------------------------------------------- the store
\* inventory_store.json: the dict load_data returns and save_data writes, a
\* function from the stored identifiers to their products.  (The dict's
\* insertion order, which only orders the list GET /inventory answers, is
\* not kept: that answer is modelled as the set of its entries.)
VARIABLES data, response, writes, probe
vars == <<data, response, writes, probe>>

Keys(d) == DOMAIN d
Lookup(d, id) == d[id]
\* A plausible slip: only the touched product is written back.
SetItemOnly(d, id, product) == [k \in {id} |-> product]
\* d[id] = product
SetItem(d, id, product) ==
    [k \in DOMAIN d \cup {id} |-> IF k = id THEN product ELSE d[k]]

\* What a handler answers (and logs): one record shape for all handlers, the
\* fields a handler does not set left at these defaults.
NoResponse ==
    [op |-> "none", product_id |-> "", status_code |-> 0, detail |-> "",
     given_threshold |-> 0, given_category |-> NoCategory,
     quantity |-> 0, available |-> 0,
     stock_before |-> 0, stock_after |-> 0,
     restock_triggered |-> FALSE, restock_quantity |-> 0,
     status |-> "", results |-> {}]

Failure(op, id, code, detail) ==
    [NoResponse EXCEPT !.op = op, !.product_id = id,
                       !.status_code = code, !.detail = detail]

InventoryResponse(product) ==
    [product_id |-> product.product_id, stock_quantity |-> product.stock_quantity,
     status |-> get_inventory_status(product), priority |-> product.priority]

\* The policy probe is idle in the service's own behaviours.
NoProbe ==
    [kind |-> "idle", product |-> Product("", "", 0, 0, 0, "low", "low_volume"),
     evaluated |-> FALSE, flag |-> FALSE, auto |-> 0, manual |-> 0]

Init ==
    /\ data = <<>>
    /\ response = NoResponse
    /\ writes = 0
    /\ probe = NoProbe

\* ------------------------------------------------------------ main.py
\* add_product, lines 24-31: the two business rules applied to the candidate.
\* A plausible slip: the threshold rule left out.
apply_rules_no_raise(product) ==
    [product EXCEPT !.category = IF product.restock_quantity > VolumeCutoff
                                 THEN "high_volume" ELSE "low_volume"]
\* A plausible slip: the category assigned only when the caller gave none.
apply_rules_keep_category(product) ==
    [product EXCEPT
        !.min_threshold = IF product.priority = "high" /\ @ < HighMinThreshold
                          THEN HighMinThreshold ELSE @,
        !.category = IF @ # NoCategory THEN @
                     ELSE IF product.restock_quantity > VolumeCutoff
                     THEN "high_volume" ELSE "low_volume"]
apply_rules(product) ==
    [product EXCEPT
        !.min_threshold = IF product.priority = "high" /\ @ < HighMinThreshold
                          THEN HighMinThreshold ELSE @,
        !.category = IF product.restock_quantity > VolumeCutoff
                     THEN "high_volume" ELSE "low_volume"]

\* POST /products
add_product(product) ==
    IF ~ProductValid(product)
    THEN \* pydantic rejects the body before the handler runs
         /\ response' = Failure("add_product", product.product_id, 422, "Values must be non-negative")
         /\ UNCHANGED <<data, writes>>
    ELSE IF product.product_id \in Keys(data)
    THEN /\ response' = Failure("add_product", product.product_id, 400, "Product already exists")
         /\ UNCHANGED <<data, writes>>
    ELSE /\ writes < MaxWrites
         /\ data' = SetItem(data, product.product_id, apply_rules(product))
         /\ writes' = writes + 1
         /\ response' = [NoResponse EXCEPT !.op = "add_product",
                                           !.product_id = product.product_id,
                                           !.status_code = 200,
                                           !.detail = "Product added successfully",
                                           !.given_threshold = product.min_threshold,
                                           !.given_category = product.category]

\* GET /inventory/{product_id}
inventory_status(product_id) ==
    /\ response' =
         IF product_id \notin Keys(data)
         THEN Failure("inventory_status", product_id, 404, "Product not found")
         ELSE LET product == Lookup(data, product_id)
              IN  [NoResponse EXCEPT !.op = "inventory_status",
                                     !.product_id = product.product_id,
                                     !.status_code = 200,
                                     !.stock_after = product.stock_quantity,
                                     !.status = get_inventory_status(product)]
    /\ UNCHANGED <<data, writes>>

\* GET /inventory
get_all_inventory ==
    /\ response' = [NoResponse EXCEPT !.op = "get_all_inventory",
                                      !.status_code = 200,
                                      !.results = {InventoryResponse(data[k]) : k \in DOMAIN data}]
    /\ UNCHANGED <<data, writes>>

\* A plausible slip: the restock decided on the stock before the decrement.
purchase_restock_first(product, quantity) ==
    LET r == restock_if_needed(product)
    IN  [r EXCEPT !.product.stock_quantity = @ - quantity]
\* What purchase_product does to the product once the stock suffices
\* (lines 117-121): the decrement, then restock_if_needed.
purchase(product, quantity) ==
    restock_if_needed([product EXCEPT !.stock_quantity = @ - quantity])

\* The stock test of line 105.
\* A plausible slip: <= for <.
insufficient_slack(product, quantity) == product.stock_quantity <= quantity
insufficient(product, quantity) == product.stock_quantity < quantity

\* POST /purchase/{product_id}
purchase_product(product_id, quantity) ==
    IF ~validate_quantity(quantity)
    THEN /\ response' = [Failure("purchase_product", product_id, 422, "Quantity must be positive")
                            EXCEPT !.quantity = quantity]
         /\ UNCHANGED <<data, writes>>
    ELSE IF product_id \notin Keys(data)
    THEN /\ response' = [Failure("purchase_product", product_id, 404, "Product not found")
                            EXCEPT !.quantity = quantity]
         /\ UNCHANGED <<data, writes>>
    ELSE IF insufficient(Lookup(data, product_id), quantity)
    THEN /\ response' = [Failure("purchase_product", product_id, 400, "Insufficient stock")
                            EXCEPT !.quantity = quantity,
                                   !.available = Lookup(data, product_id).stock_quantity]
         /\ UNCHANGED <<data, writes>>
    ELSE LET old == Lookup(data, product_id)
             r == purchase(old, quantity)
         IN  /\ writes < MaxWrites
             /\ data' = SetItem(data, product_id, r.product)
             /\ writes' = writes + 1
             /\ response' = [NoResponse EXCEPT !.op = "purchase_product",
                                               !.product_id = product_id,
                                               !.status_code = 200,
                                               !.detail = "Purchase successful",
                                               !.quantity = quantity,
                                               !.stock_before = old.stock_quantity,
                                               !.stock_after = r.product.stock_quantity,
                                               !.restock_triggered = r.triggered]

\* manual_restock, lines 153-159: the amount of a forced restock.
\* Plausible slips: the buffer left out; the product rounded, not truncated.
manual_amount_plain(product) == product.restock_quantity
manual_amount_rounded(product) ==
    LET restock_qty == product.restock_quantity
    IN  IF product.priority = "high" THEN IntRound(FMul(restock_qty, F12))
        ELSE IF product.category = "high_volume" THEN IntRound(FMul(restock_qty, F11))
        ELSE restock_qty
manual_restock_amount(product) ==
    LET restock_qty == product.restock_quantity
    IN  IF product.priority = "high" THEN IntOf(FMul(restock_qty, F12))
        ELSE IF product.category = "high_volume" THEN IntOf(FMul(restock_qty, F11))
        ELSE restock_qty

\* POST /restock/{product_id}
manual_restock(product_id) ==
    IF product_id \notin Keys(data)
    THEN /\ response' = Failure("manual_restock", product_id, 404, "Product not found")
         /\ UNCHANGED <<data, writes>>
    ELSE LET old == Lookup(data, product_id)
             actual_restock == manual_restock_amount(old)
             product == [old EXCEPT !.stock_quantity = @ + actual_restock]
         IN  /\ writes < MaxWrites
             /\ data' = SetItem(data, product_id, product)
             /\ writes' = writes + 1
             /\ response' = [NoResponse EXCEPT !.op = "manual_restock",
                                               !.product_id = product_id,
                                               !.status_code = 200,
                                               !.detail = "Manual restock completed",
                                               !.stock_before = old.stock_quantity,
                                               !.stock_after = product.stock_quantity,
                                               !.restock_quantity = actual_restock]

\* The quantities a purchase of product_id is offered: 0 (rejected), the
\* small ones, all of the stock, and one more than the stock.
Quantities(product_id) ==
    (0 .. MaxQty) \cup
    (IF product_id \in Keys(data)
     THEN {Lookup(data, product_id).stock_quantity, Lookup(data, product_id).stock_quantity + 1}
     ELSE {})

\* The bodies POST /products is offered for an identifier: every candidate
\* while the identifier is free; once it is stored, where every well-formed
\* body gets the same answer, the malformed bodies and the well-formed ones
\* that give no category and no stock.
Fresh == [id \in Ids |-> {product \in Candidates : product.product_id = id}]
Repeat ==
    [id \in Ids |->
        {product \in Fresh[id] :
            \/ ~ProductValid(product)
            \/ product.category = NoCategory /\ product.stock_quantity = 0}]
Offered(id) == IF id \in Keys(data) THEN Repeat[id] ELSE Fresh[id]

AddProduct ==
    \E id \in Ids : \E product \in Offered(id) : add_product(product) /\ UNCHANGED probe
InventoryStatus == \E product_id \in Ids : inventory_status(product_id) /\ UNCHANGED probe
GetAllInventory == get_all_inventory /\ UNCHANGED probe
PurchaseProduct ==
    \E product_id \in Ids : \E quantity \in Quantities(product_id) :
        purchase_product(product_id, quantity) /\ UNCHANGED probe
ManualRestock == \E product_id \in Ids : manual_restock(product_id) /\ UNCHANGED probe

Next ==
    \/ AddProduct
    \/ InventoryStatus
    \/ GetAllInventory
    \/ PurchaseProduct
    \/ ManualRestock

Spec == Init /\ [][Next]_vars

\* -------------------------------------------------------- the policy probe
\* The pure functions of the restock policy on their own: a product is drawn,
\* then the function is applied to it.  kind "decision" probes should_restock,
\* kind "amount" the two copies of the restock amount.
ProbeInputs ==
    {[NoProbe EXCEPT !.kind = "decision",
                     !.product = Product("probe", "bolt", s, t, 0, p, "low_volume")] :
        <<s, t, p>> \in (0 .. MaxProbe) \X (0 .. MaxProbe) \X PriorityEnum}
    \cup
    {[NoProbe EXCEPT !.kind = "amount",
                     !.product = Product("probe", "bolt", 0, 0, q, p, c)] :
        <<q, p, c>> \in (0 .. MaxProbeRestock) \X PriorityEnum \X CategoryEnum}

PolicyInit ==
    /\ data = <<>>
    /\ response = NoResponse
    /\ writes = 0
    /\ probe \in ProbeInputs

Decide ==
    /\ probe.kind = "decision"
    /\ ~probe.evaluated
    /\ probe' = [probe EXCEPT !.evaluated = TRUE, !.flag = should_restock(probe.product)]
    /\ UNCHANGED <<data, response, writes>>

ComputeAmount ==
    /\ probe.kind = "amount"
    /\ ~probe.evaluated
    /\ probe' = [probe EXCEPT !.evaluated = TRUE,
                              !.auto = auto_restock_amount(probe.product),
                              !.manual = manual_restock_amount(probe.product)]
    /\ UNCHANGED <<data, response, writes>>

PolicyNext ==
    \/ Decide
    \/ ComputeAmount

PolicySpec == PolicyInit /\ [][PolicyNext]_vars

\* ------------------------------------------------------------ the claims
\* The policy as the specification words it (section 4.2), on integers.
SpecShouldRestock(stock, threshold, priority) ==
    \/ stock = 0
    \/ /\ stock < threshold
       /\ \/ priority = "high"
          \/ priority = "medium" /\ 2 * stock <= threshold
          \/ priority = "low" /\ 4 * stock <= threshold

\* floor of restock_quantity * 1.2, resp. * 1.1, for a non-negative quantity.
SpecRestockAmount(restock_quantity, priority, category) ==
    IF priority = "high" THEN restock_quantity + restock_quantity \div 5
    ELSE IF category = "high_volume" THEN restock_quantity + restock_quantity \div 10
    ELSE restock_quantity

Succeeded(op) == response.op = op /\ response.status_code = 200

\* C1: every stored product has stock_quantity >= 0, min_threshold >= 0 and
\* restock_quantity >= 0, whatever adds, purchases and restocks came before.
C1_NonNegative ==
    \A id \in DOMAIN data :
        /\ data[id].stock_quantity >= 0
        /\ data[id].min_threshold >= 0
        /\ data[id].restock_quantity >= 0

\* A purchase has just taken all of a product's stock.
C1_Witness ==
    /\ Succeeded("purchase_product")
    /\ response.quantity = response.stock_before
    /\ C1_NonNegative

\* C2: every stored high-priority product has min_threshold >= 10; a
\* successful add stores 10 for a high-priority candidate below 10 and the
\* supplied threshold otherwise; no step changes the min_threshold or the
\* priority of a stored product.
C2_HighThreshold ==
    [][/\ \A id \in DOMAIN data' :
            data'[id].priority = "high" => data'[id].min_threshold >= 10
       /\ (response'.op = "add_product" /\ response'.status_code = 200) =>
            LET stored == data'[response'.product_id]
            IN  stored.min_threshold =
                    IF stored.priority = "high" /\ response'.given_threshold < 10
                    THEN 10 ELSE response'.given_threshold
       /\ \A id \in DOMAIN data :
            /\ id \in DOMAIN data'
            /\ data'[id].min_threshold = data[id].min_threshold
            /\ data'[id].priority = data[id].priority]_vars

\* A high-priority candidate with threshold 3 has just been stored with 10.
C2_Witness ==
    /\ Succeeded("add_product")
    /\ response.given_threshold = 3
    /\ data[response.product_id].priority = "high"
    /\ data[response.product_id].min_threshold = 10

\* C3: every stored product is high_volume exactly when its restock_quantity
\* exceeds 50 and low_volume otherwise, whatever category the caller gave, and
\* no step changes the category of a stored product.
C3_Category ==
    [][/\ \A id \in DOMAIN data' :
            data'[id].category =
                IF data'[id].restock_quantity > 50 THEN "high_volume" ELSE "low_volume"
       /\ \A id \in DOMAIN data :
            /\ id \in DOMAIN data'
            /\ data'[id].category = data[id].category]_vars

\* A candidate sent as high_volume has just been stored as low_volume.
C3_Witness ==
    /\ Succeeded("add_product")
    /\ response.given_category = "high_volume"
    /\ data[response.product_id].category = "low_volume"
    /\ data[response.product_id].restock_quantity = 50

\* C4: a request answered with a domain error (400, 404) leaves the store as
\* it was.  A purchase of more than the stock is answered "Insufficient
\* stock"; a purchase (of a positive quantity), a status query or a manual
\* restock of an absent identifier is answered "Product not found"; a
\* well-formed add of a stored identifier is answered "Product already
\* exists"; and a purchase of 0 < quantity <= stock of a stored product is
\* not answered "Insufficient stock".
C4_Errors ==
    [][LET r == response'
           present == r.product_id \in DOMAIN data
       IN  /\ r.status_code \in {400, 404} => data' = data
           /\ (r.op = "purchase_product" /\ present
                 /\ r.quantity > data[r.product_id].stock_quantity) =>
                /\ r.status_code = 400 /\ r.detail = "Insufficient stock"
                /\ r.available = data[r.product_id].stock_quantity
                /\ data' = data
           /\ (r.op = "purchase_product" /\ ~present /\ r.quantity > 0) =>
                r.status_code = 404 /\ r.detail = "Product not found"
           /\ (r.op \in {"inventory_status", "manual_restock"} /\ ~present) =>
                r.status_code = 404 /\ r.detail = "Product not found"
           /\ (r.op = "add_product" /\ present /\ r.status_code # 422) =>
                /\ r.status_code = 400 /\ r.detail = "Product already exists"
                /\ data' = data
           /\ (r.op = "purchase_product" /\ present /\ 0 < r.quantity
                 /\ r.quantity <= data[r.product_id].stock_quantity) =>
                r.status_code = 200]_vars

\* A purchase of one more than a positive stock has just been refused.
C4_Witness ==
    /\ response.op = "purchase_product"
    /\ response.detail = "Insufficient stock"
    /\ response.available > 0
    /\ response.quantity = response.available + 1
    /\ data[response.product_id].stock_quantity = response.available

\* C5: after a successful purchase of qty from stock s, restock_triggered is
\* should_restock(s - qty, min_threshold, priority), remaining_stock is s - qty
\* plus, when triggered, the restock amount, and the stored stock is the
\* remaining_stock; a purchase of all the stock is always triggered.
C5_Purchase ==
    Succeeded("purchase_product") =>
        LET product == data[response.product_id]
            left == response.stock_before - response.quantity
            amount == SpecRestockAmount(product.restock_quantity, product.priority,
                                        product.category)
        IN  /\ 0 < response.quantity /\ response.quantity <= response.stock_before
            /\ response.restock_triggered =
                   SpecShouldRestock(left, product.min_threshold, product.priority)
            /\ response.stock_after = IF response.restock_triggered THEN left + amount ELSE left
            /\ product.stock_quantity = response.stock_after
            /\ left = 0 => response.restock_triggered /\ response.stock_after = amount

\* A purchase has just left a positive stock under the threshold and has not
\* triggered a restock (a medium or low product above its tier's fraction).
C5_Witness ==
    /\ Succeeded("purchase_product")
    /\ ~response.restock_triggered
    /\ 0 < response.stock_after
    /\ response.stock_after < data[response.product_id].min_threshold

\* C6: a successful manual restock adds the restock amount whatever the
\* stock: stock_after = stock_before + restock_quantity, restock_quantity is
\* the product's restock amount, and the stored stock is stock_after.
C6_ManualRestock ==
    Succeeded("manual_restock") =>
        LET product == data[response.product_id]
        IN  /\ response.restock_quantity =
                   SpecRestockAmount(product.restock_quantity, product.priority,
                                     product.category)
            /\ response.stock_after = response.stock_before + response.restock_quantity
            /\ product.stock_quantity = response.stock_after

\* A manual restock of a product whose stock was at or over its threshold
\* (should_restock false) has just added a larger amount than restock_quantity.
C6_Witness ==
    /\ Succeeded("manual_restock")
    /\ response.stock_before > 0
    /\ response.stock_before >= data[response.product_id].min_threshold
    /\ response.stock_after >
           response.stock_before + data[response.product_id].restock_quantity

Decided(priority) ==
    probe.kind = "decision" /\ probe.evaluated /\ probe.product.priority = priority

\* C7 as stated: for a high-priority product should_restock is true whenever
\* stock < threshold and false whenever stock >= threshold.
C7_AsStated ==
    Decided("high") =>
        probe.flag = (probe.product.stock_quantity < probe.product.min_threshold)

\* C7 as amended: for a high-priority product should_restock is true whenever
\* stock < threshold or stock = 0, and false whenever stock >= threshold and
\* stock > 0.
C7_HighTier ==
    Decided("high") =>
        probe.flag = (\/ probe.product.stock_quantity < probe.product.min_threshold
                      \/ probe.product.stock_quantity = 0)

\* should_restock has answered true for stock 0 against threshold 0.
C7_Witness ==
    /\ Decided("high")
    /\ probe.product.stock_quantity = 0
    /\ probe.product.min_threshold = 0
    /\ probe.flag

\* C8: should_restock is true for stock 0 whatever the threshold and the
\* priority; for 0 < stock < threshold a medium product restocks exactly when
\* 2*stock <= threshold and a low one exactly when 4*stock <= threshold.
C8_Tiers ==
    (probe.kind = "decision" /\ probe.evaluated) =>
        LET stock == probe.product.stock_quantity
            threshold == probe.product.min_threshold
        IN  /\ stock = 0 => probe.flag
            /\ (0 < stock /\ stock < threshold /\ probe.product.priority = "medium") =>
                   probe.flag = (2 * stock <= threshold)
            /\ (0 < stock /\ stock < threshold /\ probe.product.priority = "low") =>
                   probe.flag = (4 * stock <= threshold)

\* A low product with stock exactly a quarter of its threshold restocks.
C8_Witness ==
    /\ Decided("low")
    /\ probe.product.stock_quantity = 3
    /\ probe.product.min_threshold = 12
    /\ probe.flag

\* C9: the automatic and the manual restock add the same amount: the
\* truncation of restock_quantity*1.2 for a high-priority product, else of
\* restock_quantity*1.1 for a high_volume one, else restock_quantity; for
\* restock_quantity 100 that is 120, 110 and 100.
C9_Amount ==
    (probe.kind = "amount" /\ probe.evaluated) =>
        LET q == probe.product.restock_quantity
            high == probe.product.priority = "high"
            volume == probe.product.category = "high_volume"
        IN  /\ probe.auto = probe.manual
            /\ high => 10 * probe.auto <= 12 * q /\ 12 * q < 10 * (probe.auto + 1)
            /\ (~high /\ volume) => 10 * probe.auto <= 11 * q /\ 11 * q < 10 * (probe.auto + 1)
            /\ (~high /\ ~volume) => probe.auto = q
            /\ q = 100 => probe.auto = IF high THEN 120 ELSE IF volume THEN 110 ELSE 100

\* The amounts of a medium high_volume product with restock_quantity 57 have
\* been computed: 62.7 truncated to 62 on both paths.
C9_Witness ==
    /\ probe.kind = "amount" /\ probe.evaluated
    /\ probe.product.restock_quantity = 57
    /\ probe.product.priority = "medium"
    /\ probe.product.category = "high_volume"
    /\ probe.auto = 62 /\ probe.manual = 62

\* C10: a stored product stays stored; a step changes at most the
\* stock_quantity of one stored product, and only a purchase or a manual
\* restock of that very product does.
C10_Frame ==
    [][\A id \in DOMAIN data :
          /\ id \in DOMAIN data'
          /\ data'[id] = [data[id] EXCEPT !.stock_quantity = data'[id].stock_quantity]
          /\ data'[id] # data[id] =>
                /\ response'.op \in {"purchase_product", "manual_restock"}
                /\ response'.product_id = id]_vars

\* With two products stored, a manual restock has just raised the stock of
\* one of them.
C10_Witness ==
    /\ Cardinality(DOMAIN data) = 2
    /\ Succeeded("manual_restock")
    /\ response.stock_after > response.stock_before
====
